---- MODULE Spec2Model ----
(***************************************************************************)
(* Model of the pesc interpreter core (src/src/pesc.rs): the token type,   *)
(* the engine Pesc {stack, funcs, ops}, load / eval / try_exec / exec,     *)
(* the reader parse with its local chomp, and the typed stack accessors.   *)
(* Registered functions are Rust closures; they are modelled as finite     *)
(* sequences of calls on the engine's public API, run by RunBody.          *)
(***************************************************************************)
EXTENDS Integers, Sequences, FiniteSets, TLC

VARIABLES
    p,      \* the engine: [stack, funcs, ops]            (struct Pesc)
    toks,   \* the last parse: [res |-> its result, at |-> the engine then]
    last,   \* the last API call: [op, arg, pre, res]
    steps   \* number of API calls made so far

vars == <<p, toks, last, steps>>

RECURSIVE Pow10(_)
RECURSIVE NumDigits(_)
RECURSIVE DecVal(_)
RECURSIVE ColSum(_, _, _, _)
RECURSIVE Carried(_, _, _, _, _)
RECURSIVE ShortestFrom(_, _, _, _)
RECURSIVE Hex(_)
RECURSIVE EscapeDebug(_)
RECURSIVE RunBody(_, _, _, _, _, _, _)
RECURSIVE Exec(_, _, _, _)
RECURSIVE EvalFrom(_, _, _, _, _)
RECURSIVE EvalRest(_, _, _, _, _)
RECURSIVE LoadAll(_, _)
RECURSIVE ByteSlice(_, _)
RECURSIVE ParseFrom(_, _, _, _)
RECURSIVE Turn(_, _, _, _)
RECURSIVE LinesOf(_)

(***************************************************************************)
(* Bounds of the model.                                                    *)
(***************************************************************************)
MaxSteps == 3      \* API calls per behaviour
MaxDepth == 6      \* nesting of exec calls (the call stack of the process)
MaxCalls == 2      \* accessor calls per behaviour of SpecAcc
MaxPieces == 3     \* pieces a line handed to parse is made of, in SpecParse

(***************************************************************************)
(* PescNumber = f64.  A finite value is written as the decimal             *)
(* (-1)^neg * mant / 10^exp with mant not divisible by 10 (exp is any      *)
(* integer, 0 for the two zeros), so that 0.0 and -0.0 are different       *)
(* values; the infinities and NaN are values of their own.  A decimal of   *)
(* up to 9 significant digits between 1e-307 and f64::MAX denotes one f64, *)
(* which Display prints back as that decimal; mant is an integer of the    *)
(* model checker, so more digits are not written.                          *)
(***************************************************************************)
Pow10(k) == IF k = 0 THEN 1 ELSE 10 * Pow10(k - 1)

\* the number of decimal digits of m > 0
NumDigits(m) == IF m < 10 THEN 1 ELSE 1 + NumDigits(m \div 10)

F64Norm(neg, mant, exp) ==
    IF mant = 0 THEN [cls |-> "fin", neg |-> neg, mant |-> 0, exp |-> 0]
    ELSE LET k == CHOOSE j \in 0..9 :
                      /\ mant % Pow10(j) = 0
                      /\ (j = 9 \/ mant % Pow10(j + 1) # 0)
         IN  [cls |-> "fin", neg |-> neg, mant |-> mant \div Pow10(k),
              exp |-> exp - k]

F64(n) == F64Norm(n < 0, IF n < 0 THEN -n ELSE n, 0)
NegZero == [cls |-> "fin", neg |-> TRUE, mant |-> 0, exp |-> 0]
NaN == [cls |-> "nan", neg |-> FALSE, mant |-> 0, exp |-> 0]
Inf(neg) == [cls |-> "inf", neg |-> neg, mant |-> 0, exp |-> 0]

\* the power of ten of the leading digit of a finite value other than zero
Magnitude(n) == NumDigits(n.mant) - 1 - n.exp

\* the k low decimal digits of n, most significant first
Digits(n, k) == [j \in 1..k |-> (n \div Pow10(k - j)) % 10]

\* the chars of a run of digits
Chars(ds) == [j \in 1..Len(ds) |-> ToString(ds[j])]

\* 2^1074, the number of smallest subnormals in 1, and 5^1074 (the smallest
\* subnormal, 2^-1074, is 5^1074 / 10^1074): their decimal digits, nine to
\* an element, the leading ones first
Two1074 ==
    <<202402253, 307310618, 352495346, 718917307, 49556649, 764142118,
      356901358, 27430339, 567995346, 891960383, 701437124, 495187077,
      864316811, 911389808, 737385793, 476867013, 399940738, 509921517,
      424276566, 361364466, 907742093, 216341239, 767678472, 745068562,
      7483424, 692698618, 103355649, 159556340, 810056512, 358769552,
      333414615, 230502532, 186327508, 646006263, 307707741, 93494784>>

Five1074 ==
    <<4940, 656458412, 465441765, 687928682, 213723650, 598026143, 247644255,
      856825006, 755072702, 87518652, 998363616, 359923797, 965646954,
      457177309, 266567103, 559397963, 987747960, 107818781, 263007131,
      903114045, 278458171, 678489821, 36887186, 360569987, 307230500,
      63874091, 535649843, 873124733, 972731696, 151400317, 153853980,
      741262385, 655911710, 266585566, 867681870, 395603106, 249319452,
      715914924, 553293054, 565444011, 274801297, 99995419, 319894090,
      804165633, 245247571, 478690147, 267801593, 552386115, 501348035,
      264934720, 193790268, 107107491, 703332226, 844753335, 720832431,
      936092382, 893458368, 60106011, 506169809, 753078342, 277318329,
      247904982, 524730776, 375927247, 874656084, 778203734, 469699533,
      647017972, 677717585, 125660551, 199131504, 891101451, 37862738,
      167250955, 837389733, 598993664, 809941164, 205702637, 90279242,
      767544565, 229087538, 682506419, 718265533, 447265625>>

\* Multiplication as it is written by hand, of x (digits held nine to an
\* element) by the number m > 0.  ColSum: the sum of the products standing
\* in column c (columns counted from 0 at the right), over the j + 1 low
\* digits of m.
ColSum(x, m, c, j) ==
    IF j < 0 THEN 0
    ELSE (IF c - j >= 0 /\ c - j < 9 * Len(x)
          THEN ((m \div Pow10(j)) % 10)
               * ((x[Len(x) - ((c - j) \div 9)] \div Pow10((c - j) % 9)) % 10)
          ELSE 0)
         + ColSum(x, m, c, j - 1)

\* the digits the columns lo..hi come to, the lowest first, with the carry
\* cin coming in, and the carry going out
Carried(x, m, lo, hi, cin) ==
    IF lo = hi
    THEN [digs |-> <<(ColSum(x, m, lo, NumDigits(m) - 1) + cin) % 10>>,
          c |-> (ColSum(x, m, lo, NumDigits(m) - 1) + cin) \div 10]
    ELSE LET low  == Carried(x, m, lo, (lo + hi) \div 2, cin)
             high == Carried(x, m, ((lo + hi) \div 2) + 1, hi, low.c)
         IN  [digs |-> low.digs \o high.digs, c |-> high.c]

\* the 9 * Len(x) + NumDigits(m) digits of the product, the lowest first
BigMul(x, m) == Carried(x, m, 0, 9 * Len(x) + NumDigits(m) - 1, 0).digs

\* whole and a fraction that begins with the digit next, more telling of a
\* later digit other than 0, rounded to an integer, half-way to the even one
HalfUp(whole, next, more) ==
    IF next > 5 \/ (next = 5 /\ (more \/ whole % 2 = 1))
    THEN whole + 1 ELSE whole

\* the n leading digits of prod, the digits after them rounding them
CutAt(prod, n) ==
    HalfUp(IF n <= 0 THEN 0
           ELSE DecVal([j \in 1..n |-> ToString(prod[Len(prod) + 1 - j])]),
           IF n < 0 \/ n >= Len(prod) THEN 0 ELSE prod[Len(prod) - n],
           \E j \in 1..(Len(prod) - n - 1) : prod[j] # 0)

\* the number of smallest subnormals nearest to m / 10^e: m * 2^1074 / 10^e
\* rounded to an integer
RoundK(m, e) ==
    CutAt(BigMul(Two1074, m), 9 * Len(Two1074) + NumDigits(m) - e)

\* The subnormal k / 2^1074 reads as the shortest decimal that still rounds
\* to it, the nearest to it of that length: prod holds the digits of
\* k * 5^1074, and prod / 10^1074 cut to its n leading digits is tried for n
\* from 0 on.
ShortestFrom(neg, k, prod, n) ==
    IF /\ CutAt(prod, n) > 0
       /\ RoundK(CutAt(prod, n), 1074 - Len(prod) + n) = k
    THEN F64Norm(neg, CutAt(prod, n), 1074 - Len(prod) + n)
    ELSE ShortestFrom(neg, k, prod, n + 1)

\* the k-th multiple of the smallest subnormal, 2^-1074 = 4.94e-324
Subnormal(neg, k) ==
    IF k = 0 THEN F64Norm(neg, 0, 0)
    ELSE ShortestFrom(neg, k, BigMul(Five1074, k), 0)

\* A value written with digits finer than 1e-323 lies between two subnormals
\* and becomes the nearest of them.
RoundAt(n, mag, lead) ==
    IF mag > 308 THEN Inf(n.neg)
    ELSE IF mag = 308 /\ lead > 179769313 THEN Inf(n.neg)
    ELSE IF mag < -324 THEN F64Norm(n.neg, 0, 0)
    ELSE IF n.exp > 323 THEN Subnormal(n.neg, RoundK(n.mant, n.exp))
    ELSE n

\* lead: the nine leading digits of n.mant, the tenth rounding them
RoundNorm(n, d) ==
    RoundAt(n, d - 1 - n.exp,
            IF d > 9 THEN n.mant \div 10 + (IF n.mant % 10 >= 5 THEN 1 ELSE 0)
            ELSE n.mant * Pow10(9 - d))

\* the f64 nearest to (-1)^neg * mant / 10^exp: beyond f64::MAX
\* (1.7976931348623157e308) an infinity, below half the smallest subnormal
\* a zero, among the subnormals the nearest of them
F64Round(neg, mant, exp) ==
    IF mant = 0 THEN F64Norm(neg, 0, 0)
    ELSE RoundNorm(F64Norm(neg, mant, exp),
                   NumDigits(F64Norm(neg, mant, exp).mant))

\* Variant: comparison of the bits with those of 0.0.
F64IsZeroBits(n) == n.cls = "fin" /\ n.mant = 0 /\ ~n.neg

\* n == 0.0 on f64: both zeros compare equal to 0.0, NaN to nothing.
F64IsZero(n) == n.cls = "fin" /\ n.mant = 0

\* n as usize: truncation toward zero; negative values and NaN give 0, and
\* the cast saturates: 2147483647 stands for every value from there up to
\* usize::MAX.
AsUsize(n) ==
    IF n.cls = "nan" \/ n.neg THEN 0
    ELSE IF n.cls = "inf" THEN 2147483647
    ELSE IF n.exp >= 0
    THEN (IF n.exp > 9 THEN 0 ELSE n.mant \div Pow10(n.exp))
    ELSE IF n.exp < -9 THEN 2147483647
    ELSE IF n.mant > 2147483647 \div Pow10(-n.exp) THEN 2147483647
    ELSE n.mant * Pow10(-n.exp)

Signed(n, e) == (IF n.neg THEN -1 ELSE 1) * n.mant * Pow10(e - n.exp)
SumOf(sum, e) ==
    IF sum = 0 THEN F64Norm(FALSE, 0, 0)
    ELSE F64Round(sum < 0, IF sum < 0 THEN -sum ELSE sum, e)
AddAt(a, b, e) == SumOf(Signed(a, e) + Signed(b, e), e)

\* a + b on f64 (used by the registered function add).  A value more than
\* 17 powers of ten below the other does not change it.
F64Add(a, b) ==
    IF a.cls = "nan" \/ b.cls = "nan" THEN NaN
    ELSE IF a.cls = "inf" /\ b.cls = "inf"
    THEN (IF a.neg = b.neg THEN a ELSE NaN)
    ELSE IF a.cls = "inf" THEN a
    ELSE IF b.cls = "inf" THEN b
    ELSE IF a.mant = 0 /\ b.mant = 0 THEN F64Norm(a.neg /\ b.neg, 0, 0)
    ELSE IF a.mant = 0 THEN b
    ELSE IF b.mant = 0 THEN a
    ELSE IF Magnitude(a) > Magnitude(b) + 17 THEN a
    ELSE IF Magnitude(b) > Magnitude(a) + 17 THEN b
    ELSE AddAt(a, b, IF a.exp > b.exp THEN a.exp ELSE b.exp)

(***************************************************************************)
(* enum PescToken.  A String is the sequence of its chars: the text of a   *)
(* Str, the name of a Func, what Display writes, the texts the errors      *)
(* hold.  A char is the one-character string of it when that can be        *)
(* written here (the printable ASCII chars, and the escapes \t \n \r \f);  *)
(* any other char is one of NamedChars, written by the name of its code    *)
(* point.                                                                  *)
(***************************************************************************)
\* the chars beyond the writable ones that texts of the model are made of:
\* NUL, ESC, DEL, no-break space, superscript two, one quarter, one half,
\* e acute, combining acute accent, Arabic-Indic three, the euro sign, Roman
\* numeral eight, mathematical double-struck zero
NamedChars ==
    {<<"U+0000", 0>>, <<"U+001B", 27>>, <<"U+007F", 127>>, <<"U+00A0", 160>>,
     <<"U+00B2", 178>>, <<"U+00BC", 188>>, <<"U+00BD", 189>>,
     <<"U+00E9", 233>>, <<"U+0301", 769>>, <<"U+0663", 1635>>,
     <<"U+20AC", 8364>>, <<"U+2167", 8551>>, <<"U+1D7D8", 120792>>}

CodePoints ==
    [c \in {n[1] : n \in NamedChars} |->
        (CHOOSE n \in NamedChars : n[1] = c)[2]]

IsNamed(c) == c \in DOMAIN CodePoints
CodePoint(c) == CodePoints[c]

InRanges(n, ranges) == \E r \in ranges : r[1] <= n /\ n <= r[2]

\* code points of the general categories Nd, Nl and No (char::is_numeric),
\* the ASCII digits apart
NumericRanges ==
    {<<178, 179>>, <<185, 185>>, <<188, 190>>, <<1632, 1641>>, <<1776, 1785>>,
     <<1984, 1993>>, <<2406, 2415>>, <<2534, 2543>>, <<2548, 2553>>,
     <<2662, 2671>>, <<2790, 2799>>, <<2918, 2927>>, <<2930, 2935>>,
     <<3046, 3058>>, <<3174, 3183>>, <<3192, 3198>>, <<3302, 3311>>,
     <<3416, 3422>>, <<3430, 3448>>, <<3558, 3567>>, <<3664, 3673>>,
     <<3792, 3801>>, <<3872, 3891>>, <<4160, 4169>>, <<4240, 4249>>,
     <<4969, 4988>>, <<5870, 5872>>, <<6112, 6121>>, <<6128, 6137>>,
     <<6160, 6169>>, <<6470, 6479>>, <<6608, 6618>>, <<6784, 6793>>,
     <<6800, 6809>>, <<6992, 7001>>, <<7088, 7097>>, <<7232, 7241>>,
     <<7248, 7257>>, <<8304, 8304>>, <<8308, 8313>>, <<8320, 8329>>,
     <<8528, 8578>>, <<8581, 8585>>, <<9312, 9371>>, <<9450, 9471>>,
     <<10102, 10131>>, <<11517, 11517>>, <<12295, 12295>>, <<12321, 12329>>,
     <<12344, 12346>>, <<12690, 12693>>, <<12832, 12841>>, <<12872, 12879>>,
     <<12881, 12895>>, <<12928, 12937>>, <<12977, 12991>>, <<42528, 42537>>,
     <<42726, 42735>>, <<43056, 43061>>, <<43216, 43225>>, <<43264, 43273>>,
     <<43472, 43481>>, <<43504, 43513>>, <<43600, 43609>>, <<44016, 44025>>,
     <<65296, 65305>>, <<65799, 65843>>, <<65856, 65912>>, <<65930, 65931>>,
     <<66273, 66299>>, <<66336, 66339>>, <<66369, 66369>>, <<66378, 66378>>,
     <<66513, 66517>>, <<66720, 66729>>, <<67672, 67679>>, <<67705, 67711>>,
     <<67751, 67759>>, <<67835, 67839>>, <<67862, 67867>>, <<68028, 68029>>,
     <<68032, 68047>>, <<68050, 68095>>, <<68160, 68168>>, <<68221, 68222>>,
     <<68253, 68255>>, <<68331, 68335>>, <<68440, 68447>>, <<68472, 68479>>,
     <<68521, 68527>>, <<68858, 68863>>, <<68912, 68921>>, <<68928, 68937>>,
     <<69216, 69246>>, <<69405, 69414>>, <<69457, 69460>>, <<69573, 69579>>,
     <<69714, 69743>>, <<69872, 69881>>, <<69942, 69951>>, <<70096, 70105>>,
     <<70113, 70132>>, <<70384, 70393>>, <<70736, 70745>>, <<70864, 70873>>,
     <<71248, 71257>>, <<71360, 71369>>, <<71376, 71395>>, <<71472, 71483>>,
     <<71904, 71922>>, <<72016, 72025>>, <<72688, 72697>>, <<72784, 72812>>,
     <<73040, 73049>>, <<73120, 73129>>, <<73184, 73193>>, <<73552, 73561>>,
     <<73664, 73684>>, <<74752, 74862>>, <<90416, 90425>>, <<92768, 92777>>,
     <<92864, 92873>>, <<93008, 93017>>, <<93019, 93025>>, <<93552, 93561>>,
     <<93824, 93846>>, <<94196, 94198>>, <<118000, 118009>>,
     <<119488, 119507>>, <<119520, 119539>>, <<119648, 119672>>,
     <<120782, 120831>>, <<123200, 123209>>, <<123632, 123641>>,
     <<124144, 124153>>, <<124401, 124410>>, <<125127, 125135>>,
     <<125264, 125273>>, <<126065, 126123>>, <<126125, 126127>>,
     <<126129, 126132>>, <<126209, 126253>>, <<126255, 126269>>,
     <<127232, 127244>>, <<130032, 130041>>}

\* The blocks the chars of the model lie in: Basic Latin, Latin-1 Supplement,
\* Combining Diacritical Marks, Arabic, Currency Symbols, Number Forms and
\* Mathematical Alphanumeric Symbols.  The two tables that follow hold the
\* code points of these blocks and of no other.

\* code points with the property Grapheme_Extend
GraphemeExtendRanges ==
    {<<768, 879>>, <<1552, 1562>>, <<1611, 1631>>, <<1648, 1648>>,
     <<1750, 1756>>, <<1759, 1764>>, <<1767, 1768>>, <<1770, 1773>>}

\* code points that are not printable: controls, the no-break space, format
\* chars, code points without a char
UnprintableRanges ==
    {<<0, 31>>, <<127, 160>>, <<173, 173>>, <<1536, 1541>>, <<1564, 1564>>,
     <<1757, 1757>>, <<8386, 8399>>, <<8588, 8591>>, <<119893, 119893>>,
     <<119965, 119965>>, <<119968, 119969>>, <<119971, 119972>>,
     <<119975, 119976>>, <<119981, 119981>>, <<119994, 119994>>,
     <<119996, 119996>>, <<120004, 120004>>, <<120070, 120070>>,
     <<120075, 120076>>, <<120085, 120085>>, <<120093, 120093>>,
     <<120122, 120122>>, <<120127, 120127>>, <<120133, 120133>>,
     <<120135, 120137>>, <<120145, 120145>>, <<120486, 120487>>,
     <<120780, 120781>>}

\* char::len_utf8: the length in bytes of the UTF-8 form of the char
ByteLen(c) ==
    IF ~IsNamed(c) \/ CodePoint(c) < 128 THEN 1
    ELSE IF CodePoint(c) < 2048 THEN 2
    ELSE IF CodePoint(c) < 65536 THEN 3
    ELSE 4

HexDigit == <<"0", "1", "2", "3", "4", "5", "6", "7", "8", "9", "a", "b",
              "c", "d", "e", "f">>

\* {:x}
Hex(n) ==
    IF n < 16 THEN <<HexDigit[n + 1]>>
    ELSE Append(Hex(n \div 16), HexDigit[(n % 16) + 1])

Str(s)    == [t |-> "Str", v |-> s]
Number(n) == [t |-> "Number", v |-> n]
Func(s)   == [t |-> "Func", v |-> s]
Macro(m)  == [t |-> "Macro", v |-> m]
Symbol(c) == [t |-> "Symbol", v |-> c]
Bool(b)   == [t |-> "Bool", v |-> b]

\* Option<char> of load; Option<usize> and Option<PescToken> of PescError
None == "None"
Nothing == <<>>
SomeOf(x) == <<x>>

\* Display for f64 ("{}"): no exponent, no trailing ".0"
F64Display(n) ==
    IF n.cls = "nan" THEN <<"N", "a", "N">>
    ELSE (IF n.neg THEN <<"-">> ELSE <<>>)
         \o (IF n.cls = "inf" THEN <<"i", "n", "f">>
             ELSE IF n.exp <= 0
             THEN Chars(Digits(n.mant, NumDigits(n.mant)))
                  \o [j \in 1..(-n.exp) |-> "0"]
             ELSE IF NumDigits(n.mant) > n.exp
             THEN Chars(Digits(n.mant \div Pow10(n.exp),
                               NumDigits(n.mant) - n.exp))
                  \o <<".">> \o Chars(Digits(n.mant % Pow10(n.exp), n.exp))
             ELSE <<"0", ".">>
                  \o [j \in 1..(n.exp - NumDigits(n.mant)) |-> "0"]
                  \o Chars(Digits(n.mant, NumDigits(n.mant))))

\* char::escape_debug as Debug for str applies it: \ and " and the chars
\* with an escape of their own, \u{..} for a char that extends a grapheme
\* or is not printable, the char itself otherwise (the single quote too)
EscapeChar(c) ==
    CASE c = "\\" -> <<"\\", "\\">>
      [] c = "\"" -> <<"\\", "\"">>
      [] c = "\n" -> <<"\\", "n">>
      [] c = "\t" -> <<"\\", "t">>
      [] c = "\r" -> <<"\\", "r">>
      [] c = "\f" -> <<"\\", "u", "{", "c", "}">>
      [] IsNamed(c) ->
           IF CodePoint(c) = 0 THEN <<"\\", "0">>
           ELSE IF \/ InRanges(CodePoint(c), GraphemeExtendRanges)
                   \/ InRanges(CodePoint(c), UnprintableRanges)
           THEN <<"\\", "u", "{">> \o Hex(CodePoint(c)) \o <<"}">>
           ELSE <<c>>
      [] OTHER -> <<c>>

\* Debug for String ("{:?}"), without the quotes around it
EscapeDebug(s) ==
    IF s = <<>> THEN <<>> ELSE EscapeChar(Head(s)) \o EscapeDebug(Tail(s))

\* the addresses a token is written with: where a token lies is decided by
\* the run of the program, and no two of the places a value passes through
\* (the stack, a clone, the local it is popped into) need be the same
Addresses == {2147418112, 1431655760}

\* impl Display for PescToken, of a token that lies at the address ptr.  A
\* Macro is written as the address of its vector ("{:p}": 0x and lower-case
\* hex), not as its tokens.
Display(tok, ptr) ==
    CASE tok.t = "Macro"  -> <<"<", "m", "a", "c", " ", "0", "x">>
                             \o Hex(ptr) \o <<">">>
      [] tok.t = "Symbol" -> <<"<", "s", "y", "m", " ", "'", tok.v, "'", ">">>
      [] tok.t = "Str"    -> <<"\"">> \o EscapeDebug(tok.v) \o <<"\"">>
      [] tok.t = "Number" -> F64Display(tok.v)
      [] tok.t = "Func"   -> <<"<", "f", "n", " ">> \o tok.v \o <<">">>
      [] tok.t = "Bool"   -> IF tok.v THEN <<"(", "t", "r", "u", "e", ")">>
                             ELSE <<"(", "f", "a", "l", "s", "e", ")">>

(***************************************************************************)
(* PescErrorType (crate::errors), as the constructors pesc.rs applies.     *)
(***************************************************************************)
NoErr                     == [e |-> "None"]
UnknownFunction(s)        == [e |-> "UnknownFunction", x |-> s]
InvalidArgumentType(a, b) == [e |-> "InvalidArgumentType", x |-> a, y |-> b]
InvalidNumberLit(s)       == [e |-> "InvalidNumberLit", x |-> s]
OutOfBounds(i, len)       == [e |-> "OutOfBounds", x |-> i, y |-> len]
NotEnoughArguments        == [e |-> "NotEnoughArguments"]
InvalidBoolean(v)         == [e |-> "InvalidBoolean", x |-> v]

\* PescError::new(ch, token, kind)
PescError(ch, tok, kind) == [ch |-> ch, tok |-> tok, kind |-> kind]

NoTok == [t |-> "None"]

(***************************************************************************)
(* The engine.  Pesc::new and Pesc::load.                                  *)
(***************************************************************************)
New == [stack |-> <<>>, funcs |-> <<>>, ops |-> <<>>]

Load(st, op, fnname, func) ==
    LET o == IF op # None
             THEN [c \in DOMAIN st.ops \cup {op} |->
                       IF c = op THEN fnname ELSE st.ops[c]]
             ELSE st.ops
    IN  [st EXCEPT !.ops = o,
                   !.funcs = [n \in DOMAIN st.funcs \cup {fnname} |->
                                 IF n = fnname THEN func ELSE st.funcs[n]]]

(***************************************************************************)
(* Typed stack accessors.  Each returns [st, status, kind, val].           *)
(***************************************************************************)
Ret(st, val)  == [st |-> st, status |-> "ok", kind |-> NoErr, val |-> val]
Fail(st, kind) == [st |-> st, status |-> "err", kind |-> kind, val |-> NoTok]

\* the index into the vector that depth i from the top denotes
FromTop(len, i) == len - AsUsize(i)

\* self.stack.iter().rev(): the values from the top down
Rev(s) == [j \in 1..Len(s) |-> s[Len(s) + 1 - j]]

\* Variant: the values are counted from the bottom of the stack.
NthRefFromBottom(st, i) ==
    LET len == Len(st.stack)
    IN  IF AsUsize(i) < len
        THEN Ret(st, st.stack[AsUsize(i) + 1])
        ELSE Fail(st, OutOfBounds(i, len))

NthRef(st, i) ==
    LET len == Len(st.stack)
    IN  IF AsUsize(i) < len
        THEN Ret(st, Rev(st.stack)[AsUsize(i) + 1])
        ELSE Fail(st, OutOfBounds(i, len))

\* Variant: the bound check lets the depth equal to the length through.
SetOffByOne(st, i, v) ==
    LET len == Len(st.stack)
    IN  IF len < AsUsize(i)
        THEN Fail(st, OutOfBounds(i, len))
        ELSE Ret([st EXCEPT !.stack[FromTop(len, i)] = v], NoTok)

Set(st, i, v) ==
    LET len == Len(st.stack)
    IN  IF len <= AsUsize(i)
        THEN Fail(st, OutOfBounds(i, len))
        ELSE Ret([st EXCEPT !.stack[FromTop(len, i)] = v], NoTok)

Push(st, v) == [st EXCEPT !.stack = Append(@, v)]

Pop(st) ==
    IF st.stack # <<>>
    THEN Ret([st EXCEPT !.stack = SubSeq(@, 1, Len(@) - 1)],
             st.stack[Len(st.stack)])
    ELSE Fail(st, NotEnoughArguments)

\* Variant: a value of another kind is put back before the error is returned.
PopNumberPutBack(st, ptr) ==
    LET r == Pop(st)
    IN  IF r.status # "ok" THEN r
        ELSE IF r.val.t = "Number" THEN r
        ELSE Fail(st, InvalidArgumentType(<<"n", "u", "m", "b", "e", "r">>,
                                           Display(r.val, ptr)))

PopNumber(st, ptr) ==
    LET r == Pop(st)
    IN  IF r.status # "ok" THEN r
        ELSE IF r.val.t = "Number" THEN r
        ELSE Fail(r.st, InvalidArgumentType(<<"n", "u", "m", "b", "e", "r">>,
                                             Display(r.val, ptr)))

PopString(st, ptr) ==
    LET r == Pop(st)
    IN  IF r.status # "ok" THEN r
        ELSE IF r.val.t = "Str" THEN r
        ELSE Fail(r.st, InvalidArgumentType(<<"s", "t", "r", "i", "n", "g">>,
                                             Display(r.val, ptr)))

PopMacro(st, ptr) ==
    LET r == Pop(st)
    IN  IF r.status # "ok" THEN r
        ELSE IF r.val.t = "Macro" THEN r
        ELSE Fail(r.st, InvalidArgumentType(<<"m", "a", "c", "r", "o">>,
                                             Display(r.val, ptr)))

\* the truth value pop_boolean gives a Str, a Number or a Bool
Truthy(v) ==
    CASE v.t = "Str"    -> v.v # <<>>
      [] v.t = "Number" -> ~F64IsZero(v.v)
      [] v.t = "Bool"   -> v.v

PopBoolean(st) ==
    LET r == Pop(st)
    IN  IF r.status # "ok" THEN r
        ELSE IF r.val.t \in {"Str", "Number", "Bool"}
        THEN Ret(r.st, Bool(Truthy(r.val)))
        ELSE Fail(r.st, InvalidBoolean(r.val))

(***************************************************************************)
(* Registered functions (PescFunc = dyn Fn(&mut Pesc) -> Result<(), _>).   *)
(* A function is a sequence of calls on the engine; every fallible call    *)
(* is followed by `?`, values popped are kept as locals, and the end of    *)
(* the sequence is Ok(()).                                                 *)
(***************************************************************************)
IPush(v)            == [i |-> "push", v |-> v]
IPop                == [i |-> "pop"]
IPopNumber          == [i |-> "pop_number"]
IPushSum            == [i |-> "push_sum"]     \* push(Number(l[1] + l[2]))
ISet(n, v)          == [i |-> "set", n |-> n, v |-> v]
ITryExec(v)         == [i |-> "try_exec", v |-> v]
IExecLocal          == [i |-> "exec_local"]   \* try_exec(the last local)
ILoad(op, name, f)  == [i |-> "load", op |-> op, name |-> name, f |-> f]
IErr(e)             == [i |-> "err", e |-> e] \* return Err(e)

Done(st)          == [st |-> st, status |-> "ok", kind |-> NoErr]
Raise(st, kind)   == [st |-> st, status |-> "err", kind |-> kind]

\* Variant: the running invocation reads its code from the registry entry.
CalleeLive(snap, st, func) == st.funcs[func]

\* The code a running invocation executes: the handle taken out of the
\* cloned registry before the call, whatever the registry holds by now.
Callee(snap, st, func) == snap

\* Variant: a failed function leaves the stack as it was when it failed.
RollbackNone(st, backup) == st

\* exec, on failure of the function: the pre-call stack becomes the live one.
Rollback(st, backup) == [st EXCEPT !.stack = backup]

\* Variant: an unknown name is a no-op.
ExecUnknownOk(st, func) ==
    [st |-> st, status |-> "ok", bad |-> <<>>, kind |-> NoErr]

\* exec of a Func whose name has no entry in funcs
ExecUnknown(st, func) ==
    [st |-> st, status |-> "err", bad |-> st.stack,
     kind |-> UnknownFunction(func)]

\* Variant: an alias of the standard library keeps the name it was loaded
\* with.
ResolveAtLoad(st, o) ==
    IF o = "+" THEN <<"a", "d", "d">> ELSE st.ops[o]

\* eval: the name the alias table gives an operator, when it is executed
Resolve(st, o) == st.ops[o]

TryExec(st, tok, d, ptr) ==
    LET r == Exec(st, tok, d, ptr)
    IN  [st |-> r.st, status |-> r.status, kind |-> r.kind]

RunBody(st, func, snap, pc, l, d, ptr) ==
    LET body == Callee(snap, st, func)
    IN  IF pc > Len(body) THEN Done(st)
        ELSE LET ins == body[pc]
                 \* continue after a fallible accessor call followed by `?`
                 Then(r, keep) ==
                     IF r.status = "ok"
                     THEN RunBody(r.st, func, snap, pc + 1,
                                  IF keep THEN Append(l, r.val) ELSE l, d, ptr)
                     ELSE Raise(r.st, r.kind)
             IN  CASE ins.i = "push" ->
                        RunBody(Push(st, ins.v), func, snap, pc + 1, l, d, ptr)
                   [] ins.i = "pop" -> Then(Pop(st), TRUE)
                   [] ins.i = "pop_number" -> Then(PopNumber(st, ptr), TRUE)
                   [] ins.i = "push_sum" ->
                        RunBody(Push(st, Number(F64Add(l[1].v, l[2].v))),
                                func, snap, pc + 1, l, d, ptr)
                   [] ins.i = "set" -> Then(Set(st, ins.n, ins.v), FALSE)
                   [] ins.i \in {"try_exec", "exec_local"} ->
                        LET r == TryExec(st, IF ins.i = "try_exec" THEN ins.v
                                             ELSE l[Len(l)], d, ptr)
                        IN  IF r.status = "ok"
                            THEN RunBody(r.st, func, snap, pc + 1, l, d, ptr)
                            ELSE r
                   [] ins.i = "load" ->
                        RunBody(Load(st, ins.op, ins.name, ins.f),
                                func, snap, pc + 1, l, d, ptr)
                   [] ins.i = "err" -> Raise(st, ins.e)

\* Variant: the engine as a whole is put back as it was before the call.
FuncFailedRestoresAll(st, r) ==
    [st |-> st, status |-> "err", bad |-> r.st.stack, kind |-> r.kind]

\* exec, the function called on the engine st has returned Err with the
\* engine at r.st: the stack it left is handed out as the bad stack, and the
\* backup taken before the call becomes the live stack
FuncFailed(st, r) ==
    LET backup == st.stack
    IN  [st |-> Rollback(r.st, backup), status |-> "err",
         bad |-> r.st.stack, kind |-> r.kind]

\* exec returns [st, status, bad, kind]; status "panic" is a Rust panic,
\* "deep" a call nesting beyond MaxDepth.  ptr is the address of the local
\* a typed pop of this call puts the popped value in: a call returns at its
\* first error, so one text with an address at most comes out of it.
Exec(st, tok, d, ptr) ==
    IF d = 0 THEN [st |-> st, status |-> "deep", bad |-> <<>>, kind |-> NoErr]
    ELSE CASE tok.t = "Func" ->
                IF tok.v \notin DOMAIN st.funcs
                THEN ExecUnknown(st, tok.v)
                ELSE LET r == RunBody(st, tok.v, st.funcs[tok.v], 1, <<>>,
                                      d - 1, ptr)
                     IN  IF r.status = "err" THEN FuncFailed(st, r)
                         ELSE [st |-> r.st, status |-> r.status,
                               bad |-> <<>>, kind |-> NoErr]
           [] tok.t = "Macro" ->
                LET r == EvalFrom(st, tok.v, 1, d - 1, ptr)
                IN  IF r.status = "err"
                    THEN [st |-> r.st, status |-> "err", bad |-> r.bad,
                          kind |-> r.err.kind]
                    ELSE [st |-> r.st, status |-> r.status, bad |-> <<>>,
                          kind |-> NoErr]
           [] OTHER ->
                \* tok is neither a Func nor a Macro: its text holds no address
                [st |-> st, status |-> "err", bad |-> st.stack,
                 kind |-> InvalidArgumentType(
                              <<"m", "a", "c", "r", "o", "/",
                                "f", "u", "n", "c", "t", "i", "o", "n">>,
                              Display(tok, ptr))]

EvalOk(st) == [st |-> st, status |-> "ok", bad |-> <<>>, err |-> NoErr]

\* Variant: the error records the Func the operator resolved to.
EvalSymbolRecordsFunc(st, t, func, d, ptr) ==
    LET r == Exec(st, func, d, ptr)
    IN  IF r.status = "ok" THEN EvalOk(r.st)
        ELSE IF r.status = "err"
        THEN [st |-> r.st, status |-> "err", bad |-> r.bad,
              err |-> PescError(Nothing, SomeOf(func), r.kind)]
        ELSE [st |-> r.st, status |-> r.status, bad |-> <<>>, err |-> NoErr]

\* eval, the Symbol arm, r being what exec returned: the error names the
\* operator t
Invoked(r, t) ==
    IF r.status = "ok" THEN EvalOk(r.st)
    ELSE IF r.status = "err"
    THEN [st |-> r.st, status |-> "err", bad |-> r.bad,
          err |-> PescError(Nothing, SomeOf(t), r.kind)]
    ELSE [st |-> r.st, status |-> r.status, bad |-> <<>>, err |-> NoErr]

\* eval, the Symbol arm: t is the operator, func the Func it resolved to
EvalSymbol(st, t, func, d, ptr) == Invoked(Exec(st, func, d, ptr), t)

\* Variant: a Func token is invoked too.
EvalTokenCallsFunc(st, t, d, ptr) ==
    IF t.t = "Func" THEN EvalSymbol(st, t, t, d, ptr)
    ELSE IF t.t = "Symbol"
    THEN IF t.v \notin DOMAIN st.ops
         THEN [st |-> st, status |-> "panic", bad |-> <<>>, err |-> NoErr]
         ELSE EvalSymbol(st, t, Func(Resolve(st, t.v)), d, ptr)
    ELSE EvalOk(Push(st, t))

\* Variant: a Macro token is executed instead of pushed.
EvalTokenRunsBlocks(st, t, d, ptr) ==
    IF t.t = "Macro" THEN EvalSymbol(st, t, t, d, ptr)
    ELSE IF t.t = "Symbol"
    THEN IF t.v \notin DOMAIN st.ops
         THEN [st |-> st, status |-> "panic", bad |-> <<>>, err |-> NoErr]
         ELSE EvalSymbol(st, t, Func(Resolve(st, t.v)), d, ptr)
    ELSE EvalOk(Push(st, t))

\* eval, one token: an operator is resolved and invoked (self.ops[o] on a
\* missing key panics), anything else is pushed
EvalToken(st, t, d, ptr) ==
    IF t.t = "Symbol"
    THEN IF t.v \notin DOMAIN st.ops
         THEN [st |-> st, status |-> "panic", bad |-> <<>>, err |-> NoErr]
         ELSE EvalSymbol(st, t, Func(Resolve(st, t.v)), d, ptr)
    ELSE EvalOk(Push(st, t))

\* Variant: after a failed token the remaining tokens are still evaluated.
EvalFromKeepGoing(st, code, k, d, ptr) ==
    IF k > Len(code) THEN EvalOk(st)
    ELSE LET r == EvalToken(st, code[k], d, ptr)
         IN  IF r.status = "ok" THEN EvalFrom(r.st, code, k + 1, d, ptr)
             ELSE IF r.status = "err"
             THEN [r EXCEPT !.st = EvalFrom(r.st, code, k + 1, d, ptr).st]
             ELSE r

\* eval from the k-th token of code on; returns [st, status, bad, err].
\* eval, after a token: r is what the token came to; the first failure ends
\* the loop
EvalRest(r, code, k, d, ptr) ==
    IF r.status = "ok" THEN EvalFrom(r.st, code, k + 1, d, ptr) ELSE r

EvalFrom(st, code, k, d, ptr) ==
    IF k > Len(code) THEN EvalOk(st)
    ELSE EvalRest(EvalToken(st, code[k], d, ptr), code, k, d, ptr)

Eval(st, code, ptr) == EvalFrom(st, code, 1, MaxDepth, ptr)

(***************************************************************************)
(* The reader.  A text is the sequence of its chars (one-character         *)
(* strings); the cursor i counts chars from 0, as in the source.           *)
(***************************************************************************)
DecDigits == {"0", "1", "2", "3", "4", "5", "6", "7", "8", "9"}

\* char::is_digit(10)
IsDigit10(c) == c \in DecDigits
\* char::is_numeric
IsNumeric(c) ==
    \/ c \in DecDigits
    \/ IsNamed(c) /\ InRanges(CodePoint(c), NumericRanges)

\* &input[b..]: the text from byte offset b on; a panic when b is not on a
\* char boundary, or is beyond the end.
ByteSlice(input, b) ==
    IF b = 0 THEN [ok |-> TRUE, s |-> input]
    ELSE IF input = <<>> \/ ByteLen(Head(input)) > b
    THEN [ok |-> FALSE, s |-> <<>>]
    ELSE ByteSlice(Tail(input), b - ByteLen(Head(input)))

\* the closure handed to chomp, as a function on the chars of the text
Until(ch, test(_)) == [x \in {ch[k] : k \in 1..Len(ch)} |-> test(x)]

\* chomp: the chars from c up to the first one satisfying until (or the
\* end), and the position reached.
Chomp(ch, c, until) ==
    LET e == CHOOSE j \in c..Len(ch) :
                 /\ j = Len(ch) \/ until[ch[j + 1]]
                 /\ \A m \in c..(j - 1) : ~until[ch[m + 1]]
    IN  <<SubSeq(ch, c + 1, e), e>>

Replace_(s) == SelectSeq(s, LAMBDA c : c # "_")

\* the value of a run of decimal digits; the integers here end at
\* 2147483647, a longer run than that has no value
DecVal(s) ==
    IF s = <<>> THEN 0
    ELSE 10 * DecVal(SubSeq(s, 1, Len(s) - 1))
         + (CHOOSE n \in 0..9 : ToString(n) = s[Len(s)])

\* the letters of "inf", "infinity", "nan" and of the exponent, in lower case
Lower(c) ==
    CASE c = "A" -> "a" [] c = "E" -> "e" [] c = "F" -> "f" [] c = "I" -> "i"
      [] c = "N" -> "n" [] c = "T" -> "t" [] c = "Y" -> "y" [] OTHER -> c

\* the place of the first digit of s other than 0, Len(s) + 1 without one
FirstSig(s) ==
    IF \A j \in 1..Len(s) : s[j] = "0" THEN Len(s) + 1
    ELSE CHOOSE j \in 1..Len(s) : s[j] # "0" /\ \A m \in 1..(j - 1) : s[m] = "0"

ExpValFrom(s, from) ==
    IF Len(s) + 1 - from > 4 THEN 9999 ELSE DecVal(SubSeq(s, from, Len(s)))

\* the value of the digits of an exponent; 9999 stands for every larger one
ExpVal(s) == ExpValFrom(s, FirstSig(s))

AllDigits(s) == s # <<>> /\ \A j \in 1..Len(s) : IsDigit10(s[j])

\* the digits of an exponent, after its sign
ExpDigits(ex) == IF ex # <<>> /\ ex[1] \in {"+", "-"} THEN Tail(ex) ELSE ex

ExpOf(ex) == (IF ex[1] = "-" THEN -1 ELSE 1) * ExpVal(ExpDigits(ex))

\* digits with at most one '.', and one digit at least
ValidNum(num) ==
    /\ \A j \in 1..Len(num) : num[j] = "." \/ IsDigit10(num[j])
    /\ Len(SelectSeq(num, LAMBDA c : c = ".")) <= 1
    /\ \E j \in 1..Len(num) : IsDigit10(num[j])

\* the number of digits after the '.'
Places(num) ==
    IF \E j \in 1..Len(num) : num[j] = "."
    THEN Len(num) - (CHOOSE j \in 1..Len(num) : num[j] = ".")
    ELSE 0

ParseDecimal(neg, num, ex, hasexp) ==
    IF ValidNum(num) /\ (~hasexp \/ AllDigits(ExpDigits(ex)))
    THEN [ok |-> TRUE,
          v |-> F64Round(neg, DecVal(SelectSeq(num, IsDigit10)),
                         Places(num) - (IF hasexp THEN ExpOf(ex) ELSE 0))]
    ELSE [ok |-> FALSE, v |-> NaN]

\* the place of the first 'e' of low, Len(low) + 1 without one
ExpPos(low) ==
    IF \A j \in 1..Len(low) : low[j] # "e" THEN Len(low) + 1
    ELSE CHOOSE j \in 1..Len(low) :
             low[j] = "e" /\ \A m \in 1..(j - 1) : low[m] # "e"

ParseSplit(neg, body, epos) ==
    ParseDecimal(neg, SubSeq(body, 1, epos - 1),
                 SubSeq(body, epos + 1, Len(body)), epos <= Len(body))

ParseUnsigned(neg, body, low) ==
    IF low \in {<<"i", "n", "f">>, <<"i", "n", "f", "i", "n", "i", "t", "y">>}
    THEN [ok |-> TRUE, v |-> Inf(neg)]
    ELSE IF low = <<"n", "a", "n">> THEN [ok |-> TRUE, v |-> NaN]
    ELSE ParseSplit(neg, body, ExpPos(low))

ParseBody(neg, body) ==
    ParseUnsigned(neg, body, [k \in 1..Len(body) |-> Lower(body[k])])

\* str::parse::<f64>: an optional sign, then "inf", "infinity" or "nan" in
\* any case, or digits with at most one '.', at least one digit in all, and
\* an optional exponent: 'e' or 'E', an optional sign and at least one digit.
ParseF64(s) ==
    IF s # <<>> /\ s[1] \in {"+", "-"} THEN ParseBody(s[1] = "-", Tail(s))
    ELSE ParseBody(FALSE, s)

ParseOk(i, acc) ==
    [status |-> "ok", cur |-> i, toks |-> acc, err |-> NoErr]
ParseErr(i, kind) ==
    [status |-> "err", cur |-> 0, toks |-> <<>>,
     err |-> PescError(SomeOf(i), Nothing, kind)]
ParsePanic == [status |-> "panic", cur |-> 0, toks |-> <<>>, err |-> NoErr]

\* Variant: every char is taken for a registered alias.
ContainsKeyAny(o, c) == TRUE

\* self.ops.contains_key(&chs[i])
ContainsKey(o, c) == c \in DOMAIN o

\* Variant: the cursor returned is the one past the brace.
CloseBracePast(i, acc) == ParseOk(i + 1, acc)

\* '}' => return Ok((i, toks))
CloseBrace(i, acc) == ParseOk(i, acc)

\* Variant: the char after the closing brace is passed over too.
AfterBlockLong(i, cur) == i + cur + 3

\* Variant: only one of the two braces is counted.
AfterBlockShort(i, cur) == i + cur + 1

\* the cursor past a block opened at i whose inner parse stopped at cur
AfterBlock(i, cur) == i + cur + 2

\* one turn of the while loop either goes on at a cursor, with the tokens
\* read so far, or leaves parse with a result
GoOn(i, acc) == [go |-> TRUE, i |-> i, acc |-> acc, res |-> ParseOk(i, acc)]
Leave(res) == [go |-> FALSE, i |-> 0, acc |-> <<>>, res |-> res]

\* the body of the while loop of parse, at cursor i < chs.len() with the
\* tokens acc read so far
Turn(o, input, i, acc) ==
    LET c == input[i + 1]
        NumLit(n, j) ==
            LET lit == ParseF64(Replace_(n[1]))
            IN  IF lit.ok THEN GoOn(j, Append(acc, Number(lit.v)))
                ELSE Leave(ParseErr(j, InvalidNumberLit(n[1])))
    IN  CASE IsNumeric(c) \/ c = "." \/ c = "_" ->
               LET n == Chomp(input, i, Until(input, LAMBDA x :
                            ~IsDigit10(x) /\ x # "_" /\ x # "."))
               IN  NumLit(n, n[2])
          [] c = "(" ->
               LET n == Chomp(input, i + 1, Until(input, LAMBDA x : x = ")"))
               IN  NumLit(n, n[2] + 1)
          [] c = "\"" ->
               LET s == Chomp(input, i + 1, Until(input, LAMBDA x : x = "\""))
               IN  GoOn(s[2] + 1, Append(acc, Str(s[1])))
          [] c = "[" ->
               LET s == Chomp(input, i + 1, Until(input, LAMBDA x : x = "]"))
               IN  GoOn(s[2] + 1, Append(acc, Func(s[1])))
          [] c = "{" ->
               LET rest == ByteSlice(input, i + 1)
                   res  == ParseFrom(o, rest.s, 0, <<>>)
               IN  IF ~rest.ok THEN Leave(ParsePanic)
                   ELSE IF res.status # "ok" THEN Leave(res)
                   ELSE GoOn(AfterBlock(i, res.cur),
                             Append(acc, Macro(res.toks)))
          [] c = "}" -> Leave(CloseBrace(i, acc))
          [] c \in {"\n", "\t", " "} -> GoOn(i + 1, acc)
          [] c = "\\" ->
               LET s == Chomp(input, i + 1, Until(input,
                              LAMBDA x : x = "\n" \/ x = "\\"))
               IN  GoOn(s[2] + 1, acc)
          [] c = "T" -> GoOn(i + 1, Append(acc, Bool(TRUE)))
          [] c = "F" -> GoOn(i + 1, Append(acc, Bool(FALSE)))
          [] OTHER ->
               IF ~ContainsKey(o, c)
               THEN Leave(ParseErr(i, UnknownFunction(<<"'", c, "'">>)))
               ELSE GoOn(i + 1, Append(acc, Symbol(c)))

\* the while loop of parse, at cursor i with the tokens acc read so far
ParseFrom(o, input, i, acc) ==
    IF i >= Len(input) THEN ParseOk(i, acc)
    ELSE LET t == Turn(o, input, i, acc)
         IN  IF t.go THEN ParseFrom(o, input, t.i, t.acc) ELSE t.res

Parse(st, input) == ParseFrom(st.ops, input, 0, <<>>)

(***************************************************************************)
(* The functions registered at start-up (stdlib::functions(), main.rs) and *)
(* the ones registered later.                                              *)
(***************************************************************************)
\* add: pops two numbers and pushes their sum
AddBody == <<IPopNumber, IPopNumber, IPushSum>>
\* ex: pops a value and invokes it
ExBody == <<IPop, IExecLocal>>
\* bad: pushes, invokes add, overwrites, pops, and then fails
BadBody == <<IPush(Number(F64(1))), IPush(Number(F64(2))),
             ITryExec(Func(<<"a", "d", "d">>)), ISet(F64(1), Bool(FALSE)),
             IPop, IErr(NotEnoughArguments)>>
\* redef: replaces its own entry, then pushes 1; the replacement pushes 9
RedefNew == <<IPush(Number(F64(9)))>>
RedefBody == <<ILoad(None, <<"r", "e", "d", "e", "f">>, RedefNew),
               IPush(Number(F64(1)))>>
\* two: pushes 2
TwoBody == <<IPush(Number(F64(2)))>>
\* regfail: pushes, registers two under the alias '?', gives add the body
\* of two, and then fails
RegFailBody == <<IPush(Number(F64(7))),
                 ILoad("?", <<"t", "w", "o">>, TwoBody),
                 ILoad(None, <<"a", "d", "d">>, TwoBody),
                 IErr(NotEnoughArguments)>>

Stdlib == << <<"+", <<"a", "d", "d">>, AddBody>>,
             <<";", <<"e", "x">>, ExBody>>,
             <<"!", <<"b", "a", "d">>, BadBody>>,
             <<"r", <<"r", "e", "d", "e", "f">>, RedefBody>> >>

\* later registrations: an alias moved to a new name, a name given a new body
Registrations == { <<"+", <<"t", "w", "o">>, TwoBody>>,
                   <<None, <<"a", "d", "d">>, TwoBody>>,
                   <<"?", <<"a", "d", "d">>, AddBody>>,
                   <<None, <<"r", "e", "g", "f", "a", "i", "l">>,
                     RegFailBody>> }

\* aliases written into ops directly (the field is pub)
Aliases == { <<"?", <<"n", "o", "p", "e">>>> }

LoadAll(st, fs) ==
    IF fs = <<>> THEN st
    ELSE LoadAll(Load(st, fs[1][1], fs[1][2], fs[1][3]), Tail(fs))

\* ops.insert(c, name)
SetAlias(st, c, name) ==
    [st EXCEPT !.ops = [x \in DOMAIN st.ops \cup {c} |->
                            IF x = c THEN name ELSE st.ops[x]]]

(***************************************************************************)
(* Inputs of the session.                                                  *)
(***************************************************************************)
TxAdd       == <<"1", " ", "2", "[", "a", "d", "d", "]">>
TxAddRun    == <<"1", " ", "2", "[", "a", "d", "d", "]", ";">>
TxPlus      == <<"1", " ", "2", "+">>
TxNest      == <<"{", "1", " ", "2", "{", "3", "}", "4", "}">>
TxNestRun   == <<"{", "1", " ", "2", "{", "3", "}", "4", "}", ";">>
TxBlockPlus == <<"1", " ", "2", "{", "+", "}", ";">>
TxFail      == <<"T", " ", "1", "+", "F">>
TxBad       == <<"1", "!", "2">>
TxUnknown   == <<"3", "?", "4">>
TxRedef     == <<"r", "r">>
TxLits      == <<"[", "a", "d", "d", "]", "{", "+", "}", "T", "\"", "x", "\"">>
TxBlockFail == <<"T", "{", "+", "}", ";">>

Texts == {TxAdd, TxAddRun, TxPlus, TxNest, TxNestRun, TxBlockPlus, TxFail,
          TxBad, TxUnknown, TxRedef, TxLits, TxBlockFail}

N(n) == Number(F64(n))
NestBlock == Macro(<<N(1), N(2), Macro(<<N(3)>>), N(4)>>)

\* token slices handed to eval that no parse made
Built == {<<N(5), Symbol("?")>>}

\* values handed to try_exec
Callables == {Func(<<"a", "d", "d">>), Func(<<"b", "a", "d">>),
              Func(<<"r", "e", "d", "e", "f">>), Func(<<"e", "x">>),
              Func(<<"r", "e", "g", "f", "a", "i", "l">>),
              Func(<<"n", "o", "p", "e">>), Macro(<<Symbol("+")>>), NestBlock,
              Bool(TRUE)}

(***************************************************************************)
(* The session: main() makes the engine and loads the standard library;    *)
(* then the API is called: load, parse, eval, try_exec.                    *)
(***************************************************************************)
NoParse == [res |-> [status |-> "none", cur |-> 0, toks |-> <<>>,
                     err |-> NoErr],
            at |-> New]

Init ==
    /\ p = LoadAll(New, Stdlib)
    /\ toks = NoParse
    /\ last = [op |-> "new", arg |-> <<>>, pre |-> New, res |-> Done(New),
            ptr |-> 0]
    /\ steps = 0

\* a panic ends the process
Running == last.res.status # "panic" /\ steps < MaxSteps

LoadStep ==
    /\ Running
    /\ \E c \in Registrations :
          /\ p' = Load(p, c[1], c[2], c[3])
          /\ last' = [op |-> "load", arg |-> c, pre |-> p, res |-> Done(p'),
                      ptr |-> 0]
    /\ steps' = steps + 1
    /\ UNCHANGED toks

SetAliasStep ==
    /\ Running
    /\ \E c \in Aliases :
          /\ p' = SetAlias(p, c[1], c[2])
          /\ last' = [op |-> "alias", arg |-> c, pre |-> p, res |-> Done(p'),
                      ptr |-> 0]
    /\ steps' = steps + 1
    /\ UNCHANGED toks

ParseStep ==
    /\ Running
    /\ \E input \in Texts :
          LET r == Parse(p, input)
          IN  /\ toks' = [res |-> r, at |-> p]
              /\ last' = [op |-> "parse", arg |-> input, pre |-> p, res |-> r,
                          ptr |-> 0]
    /\ steps' = steps + 1
    /\ UNCHANGED p

\* eval takes the tokens of the last successful parse, or a slice of
\* tokens the caller has built
EvalStep ==
    /\ Running
    /\ \E code \in (IF toks.res.status = "ok" THEN {toks.res.toks} ELSE {})
                    \cup Built, ptr \in Addresses :
          LET r == Eval(p, code, ptr)
          IN  /\ r.status # "deep"
              /\ p' = r.st
              /\ last' = [op |-> "eval", arg |-> code, pre |-> p, res |-> r,
                          ptr |-> ptr]
    /\ steps' = steps + 1
    /\ UNCHANGED toks

TryExecStep ==
    /\ Running
    /\ \E tok \in Callables, ptr \in Addresses :
          LET r == TryExec(p, tok, MaxDepth, ptr)
          IN  /\ r.status # "deep"
              /\ p' = r.st
              /\ last' = [op |-> "try_exec", arg |-> tok, pre |-> p, res |-> r,
                          ptr |-> ptr]
    /\ steps' = steps + 1
    /\ UNCHANGED toks

Next == LoadStep \/ SetAliasStep \/ ParseStep \/ EvalStep \/ TryExecStep

Spec == Init /\ [][Next]_vars

(***************************************************************************)
(* parse on its own: the engine has the standard library, with or without  *)
(* the alias '?'; a line is read and parse is called on it.  The line is   *)
(* put together from at most MaxPieces pieces: a char of every lexical      *)
(* form, a block with a string and a block inside, and a string of         *)
(* two-byte chars.                                                         *)
(***************************************************************************)
Pieces ==
    {<<"1">>, <<".">>, <<"_">>, <<"U+00BD">>, <<"(">>, <<"\"">>, <<"[">>,
     <<"{">>, <<"}">>, <<"\\">>, <<"+">>, <<"?">>,
     <<"{", "\"", "}", "\"", "{", "\\", "}", "\\", "1", "}", "}">>,
     <<"\"", "U+00BD", "U+00BD", "U+00BD", "\"">>}

LinesOf(k) ==
    IF k = 0 THEN {<<>>}
    ELSE LET shorter == LinesOf(k - 1)
         IN  shorter \cup {l \o w : l \in shorter, w \in Pieces}

Lines == LinesOf(MaxPieces)

ParseEngines ==
    {LoadAll(New, Stdlib),
     Load(LoadAll(New, Stdlib), "?", <<"a", "d", "d">>, AddBody)}

InitParse ==
    /\ p \in ParseEngines
    /\ toks = NoParse
    /\ \E line \in Lines :
          last = [op |-> "readline", arg |-> line, pre |-> New,
                  res |-> Done(New), ptr |-> 0]
    /\ steps = 0

ReadStep ==
    /\ last.op = "readline"
    /\ LET r == Parse(p, last.arg)
       IN  /\ toks' = [res |-> r, at |-> p]
           /\ last' = [op |-> "parse", arg |-> last.arg, pre |-> p, res |-> r,
                       ptr |-> 0]
    /\ UNCHANGED <<p, steps>>

NextParse == ReadStep

SpecParse == InitParse /\ [][NextParse]_vars

(***************************************************************************)
(* The typed accessors on their own: the stack starts as any of AccStacks  *)
(* and the accessors are called on it, as the registered functions do.     *)
(***************************************************************************)
AccValues == {Str(<<>>), Str(<<"x">>), Number(F64(0)), Number(NegZero),
              Number(F64Norm(FALSE, 15, 1)), Number(NaN), Bool(TRUE),
              Bool(FALSE), Func(<<"a", "d", "d">>), Macro(<<N(1)>>),
              Symbol("+")}

AccStacks == {<<>>} \cup {<<v>> : v \in AccValues}
             \cup {<<w, v>> : w \in {N(7), Str(<<"y">>)}, v \in AccValues}

\* depths: 0, 1, 2, 3, 0.5, 2.5, -0.0, -1, NaN
AccIndices == {F64(0), F64(1), F64(2), F64(3), F64Norm(FALSE, 5, 1),
               F64Norm(FALSE, 25, 1), NegZero, F64(-1), NaN}

AccNew == {N(8), Bool(TRUE)}

InitAcc ==
    /\ \E s \in AccStacks : p = [LoadAll(New, Stdlib) EXCEPT !.stack = s]
    /\ toks = NoParse
    /\ last = [op |-> "new", arg |-> <<>>, pre |-> New, res |-> Done(New),
            ptr |-> 0]
    /\ steps = 0

\* the call is recorded with its result and, for a typed pop, the address of
\* its local (0 for the calls that write no text); the engine becomes the
\* result's
Called(op, arg, r, ptr) ==
    /\ steps < MaxCalls
    /\ p' = r.st
    /\ last' = [op |-> op, arg |-> arg, pre |-> p, res |-> r, ptr |-> ptr]
    /\ steps' = steps + 1
    /\ UNCHANGED toks

PushStep == \E v \in AccNew : Called("push", v, Ret(Push(p, v), NoTok), 0)
PopStep == Called("pop", <<>>, Pop(p), 0)
PopBooleanStep == Called("pop_boolean", <<>>, PopBoolean(p), 0)
PopNumberStep ==
    \E ptr \in Addresses : Called("pop_number", <<>>, PopNumber(p, ptr), ptr)
PopStringStep ==
    \E ptr \in Addresses : Called("pop_string", <<>>, PopString(p, ptr), ptr)
PopMacroStep ==
    \E ptr \in Addresses : Called("pop_macro", <<>>, PopMacro(p, ptr), ptr)
NthRefStep == \E i \in AccIndices : Called("nth_ref", i, NthRef(p, i), 0)
SetStep ==
    \E i \in AccIndices, v \in AccNew :
        Called("set", [i |-> i, v |-> v], Set(p, i, v), 0)

NextAcc ==
    \/ PushStep \/ PopStep \/ PopBooleanStep \/ PopNumberStep
    \/ PopStringStep \/ PopMacroStep \/ NthRefStep \/ SetStep

SpecAcc == InitAcc /\ [][NextAcc]_vars

(***************************************************************************)
(* Properties.  pre is the engine before the last call, p the one after.   *)
(***************************************************************************)
Top(st) == st.stack[Len(st.stack)]
Literals(code) == \A j \in 1..Len(code) : code[j].t # "Symbol"
Parsed(text) ==
    /\ toks.res.status = "ok"
    /\ toks.res = Parse(toks.at, text)
EvalOfParsed(text) ==
    /\ last.op = "eval"
    /\ Parsed(text)
    /\ last.arg = toks.res.toks
HasFunc(st, name, body) ==
    name \in DOMAIN st.funcs /\ st.funcs[name] = body
HasAlias(st, c, name) ==
    c \in DOMAIN st.ops /\ st.ops[c] = name

\* C1: when invoke(FunctionRef(name)) of a registered function fails, the
\* live stack afterwards is, element for element, the stack before the call,
\* whatever the function did to the stack before it failed.
FailedInvoke ==
    /\ last.op = "try_exec"
    /\ last.arg.t = "Func"
    /\ last.arg.v \in DOMAIN last.pre.funcs
    /\ last.res.status = "err"
C1_FailedInvokeRestoresStack == FailedInvoke => p.stack = last.pre.stack

\* a failed invoke on a non-empty stack that the function had changed
C1_Witness ==
    /\ FailedInvoke
    /\ last.pre.stack # <<>>
    /\ Exec(last.pre, last.arg, MaxDepth, last.ptr).bad # last.pre.stack

\* C2: when evaluate fails at its k-th token, that token is an Operator, the
\* stack is the one the tokens 1..k-1 produced, the engine is as the one
\* failing invocation left it, and no later token has run.
FirstFail(st, code) ==
    CHOOSE k \in 1..Len(code) :
        /\ Eval(st, SubSeq(code, 1, k), last.ptr).status = "err"
        /\ \A j \in 1..(k - 1) :
              Eval(st, SubSeq(code, 1, j), last.ptr).status = "ok"
C2_EvalStopsAtFailure ==
    (last.op = "eval" /\ last.res.status = "err") =>
        LET code   == last.arg
            k      == FirstFail(last.pre, code)
            before == Eval(last.pre, SubSeq(code, 1, k - 1), last.ptr)
            call   == Exec(before.st, Func(before.st.ops[code[k].v]),
                           MaxDepth, last.ptr)
        IN  /\ code[k].t = "Symbol"
            /\ last.res.err.tok = SomeOf(code[k])
            /\ before.status = "ok"
            /\ p.stack = before.st.stack
            /\ p = call.st

\* evaluate failed at a token with tokens before and after it, and the
\* failing invocation had changed the stack
C2_Witness ==
    /\ last.op = "eval"
    /\ last.res.status = "err"
    /\ LET k == FirstFail(last.pre, last.arg)
       IN  /\ 1 < k
           /\ k < Len(last.arg)
           /\ p.stack # last.pre.stack
           /\ last.res.bad # p.stack

\* C3 as stated: 1 2[add], parsed and evaluated on an empty stack with add
\* registered, leaves the one-element stack [Number(3.0)].
AddCase ==
    /\ EvalOfParsed(TxAdd)
    /\ last.pre.stack = <<>>
    /\ HasFunc(last.pre, <<"a", "d", "d">>, AddBody)
C3_Original == AddCase => p.stack = <<N(3)>>

\* C3 amended: 1 2[add], parsed and evaluated on an empty stack with add
\* registered, succeeds and leaves [Number(1), Number(2), FunctionRef(add)];
\* add is not invoked.
C3_FuncRefIsPushed ==
    AddCase => /\ last.res.status = "ok"
               /\ p.stack = <<N(1), N(2), Func(<<"a", "d", "d">>)>>
               /\ p.funcs = last.pre.funcs
               /\ p.ops = last.pre.ops

C3_Witness == AddCase /\ Len(p.stack) = 3 /\ Top(p) = Func(<<"a", "d", "d">>)

\* C4 as stated: {1 2{3}4} parses to the four tokens
\* [Number(1), Number(2), Block([Number(3)]), Number(4)].
C4_Original ==
    (last.op = "parse" /\ last.arg = TxNest) =>
        /\ last.res.status = "ok"
        /\ last.res.toks = <<N(1), N(2), Macro(<<N(3)>>), N(4)>>

\* C4 amended: {1 2{3}4} parses to the single token
\* Block([Number(1), Number(2), Block([Number(3)]), Number(4)]); evaluating
\* that sequence pushes the one Block without executing it; invoking the
\* Block pushes 1, 2, Block([Number(3)]), 4 in that order without executing
\* the inner block.
C4_NestedBlockIsOneToken ==
    /\ (last.op = "parse" /\ last.arg = TxNest) =>
           /\ last.res.status = "ok"
           /\ last.res.toks = <<NestBlock>>
    /\ (last.op = "eval" /\ last.arg = <<NestBlock>>) =>
           /\ last.res.status = "ok"
           /\ p.stack = last.pre.stack \o <<NestBlock>>
    /\ (last.op = "try_exec" /\ last.arg = NestBlock) =>
           /\ last.res.status = "ok"
           /\ p.stack = last.pre.stack
                        \o <<N(1), N(2), Macro(<<N(3)>>), N(4)>>

C4_Witness ==
    /\ EvalOfParsed(TxNest)
    /\ Len(toks.res.toks) = 1
    /\ p.stack = last.pre.stack \o toks.res.toks

\* C5: evaluating a token sequence without Operator tokens succeeds, leaves
\* the stack as the previous stack followed by the tokens in order, and
\* leaves both registries as they were: nothing is invoked.
C5_LiteralsArePushed ==
    (last.op = "eval" /\ Literals(last.arg)) =>
        /\ last.res.status = "ok"
        /\ p.stack = last.pre.stack \o last.arg
        /\ p.funcs = last.pre.funcs
        /\ p.ops = last.pre.ops

\* the sequence held a FunctionRef of a registered function and a Block
\* with an operator in it
C5_Witness ==
    /\ EvalOfParsed(TxLits)
    /\ last.arg[1] = Func(<<"a", "d", "d">>)
    /\ <<"a", "d", "d">> \in DOMAIN last.pre.funcs
    /\ last.arg[2] = Macro(<<Symbol("+")>>)

\* C6: an Operator token, at top level (1 2+) or in a block parsed earlier and
\* invoked later (1 2{+};), runs the function that ops and funcs map its
\* character to when it is executed, whatever they held when it was parsed.
PlusCase(text) ==
    /\ EvalOfParsed(text)
    /\ HasAlias(last.pre, ";", <<"e", "x">>)
    /\ HasFunc(last.pre, <<"e", "x">>, ExBody)
C6_ResolvedWhenExecuted ==
    \A text \in {TxPlus, TxBlockPlus} :
        PlusCase(text) =>
            LET pre  == last.pre
                s12  == Push(Push(pre, N(1)), N(2))
                name == pre.ops["+"]
                now  == Exec(s12, Func(name), MaxDepth, last.ptr)
            IN  /\ last.res.status = "ok"
                /\ now.status = "ok"
                /\ p = now.st
                /\ HasFunc(pre, name, TwoBody) =>
                       p.stack = pre.stack \o <<N(1), N(2), N(2)>>
                /\ HasFunc(pre, name, AddBody) =>
                       p.stack = pre.stack \o <<N(3)>>

\* '+' was an alias of add when the block was parsed, was registered anew for
\* two before the evaluation, and two is what ran
C6_Witness ==
    /\ PlusCase(TxBlockPlus)
    /\ HasAlias(toks.at, "+", <<"a", "d", "d">>)
    /\ HasAlias(last.pre, "+", <<"t", "w", "o">>)
    /\ p.stack = <<N(1), N(2), N(2)>>

\* C7: a name without an entry in funcs fails where it is used, with
\* UnknownFunction(name) and the stack as it was: in invoke(FunctionRef(name))
\* and in the evaluation of an Operator whose alias maps to it.  Registering
\* an alias for a name not yet in funcs succeeds.
FirstSymbol(code) ==
    CHOOSE k \in 1..Len(code) :
        code[k].t = "Symbol" /\ Literals(SubSeq(code, 1, k - 1))
DanglingEval ==
    /\ last.op = "eval"
    /\ ~Literals(last.arg)
    /\ LET c == last.arg[FirstSymbol(last.arg)].v
       IN  /\ c \in DOMAIN last.pre.ops
           /\ last.pre.ops[c] \notin DOMAIN last.pre.funcs
C7_UnknownFailsOnUse ==
    /\ (/\ last.op = "try_exec"
        /\ last.arg.t = "Func"
        /\ last.arg.v \notin DOMAIN last.pre.funcs) =>
           /\ last.res.status = "err"
           /\ last.res.kind = UnknownFunction(last.arg.v)
           /\ p = last.pre
    /\ DanglingEval =>
           LET k == FirstSymbol(last.arg)
           IN  /\ last.res.status = "err"
               /\ last.res.err.kind.e = "UnknownFunction"
               /\ last.res.err.kind.x = last.pre.ops[last.arg[k].v]
               /\ p.stack = last.pre.stack \o SubSeq(last.arg, 1, k - 1)
               /\ p.funcs = last.pre.funcs
               /\ p.ops = last.pre.ops
    /\ (/\ last.op \in {"alias", "load"}
        /\ last.arg[1] # None
        /\ last.arg[2] \notin DOMAIN last.pre.funcs) =>
           /\ last.res.status = "ok"
           /\ HasAlias(p, last.arg[1], last.arg[2])
           /\ p.stack = last.pre.stack

\* an operator whose alias maps to a name that was never registered was
\* evaluated after a literal
C7_Witness ==
    /\ DanglingEval
    /\ FirstSymbol(last.arg) > 1
    /\ last.res.status = "err"
    /\ <<"n", "o", "p", "e">> \notin DOMAIN p.funcs
    /\ HasAlias(p, "?", <<"n", "o", "p", "e">>)

\* C8: redef replaces its own entry in funcs and then pushes 1.  The running
\* invocation completes with that body (1 is pushed, the entry is the
\* replacement); the next invocation runs the replacement (9 is pushed).
C8_RunningBodySurvivesReplacement ==
    /\ (/\ last.op = "try_exec"
        /\ last.arg = Func(<<"r", "e", "d", "e", "f">>)
        /\ HasFunc(last.pre, <<"r", "e", "d", "e", "f">>, RedefBody)) =>
           /\ last.res.status = "ok"
           /\ p.stack = last.pre.stack \o <<N(1)>>
           /\ p.funcs[<<"r", "e", "d", "e", "f">>] = RedefNew
    /\ (/\ last.op = "try_exec"
        /\ last.arg = Func(<<"r", "e", "d", "e", "f">>)
        /\ HasFunc(last.pre, <<"r", "e", "d", "e", "f">>, RedefNew)) =>
           /\ last.res.status = "ok"
           /\ p.stack = last.pre.stack \o <<N(9)>>
    /\ (/\ EvalOfParsed(TxRedef)
        /\ HasAlias(last.pre, "r", <<"r", "e", "d", "e", "f">>)
        /\ HasFunc(last.pre, <<"r", "e", "d", "e", "f">>, RedefBody)) =>
           /\ last.res.status = "ok"
           /\ p.stack = last.pre.stack \o <<N(1), N(9)>>

\* the second invocation, after the one that replaced the entry
C8_Witness ==
    /\ last.op = "try_exec"
    /\ last.arg = Func(<<"r", "e", "d", "e", "f">>)
    /\ HasFunc(last.pre, <<"r", "e", "d", "e", "f">>, RedefNew)
    /\ p.stack = <<N(1), N(9)>>

\* C9: for every depth n >= 0 and every stack of length len with n >= len,
\* peek_at(n) and set_at(n, v) fail with OutOfBounds(n, len) and leave the
\* stack as it was.
F64Ge(n, k) ==
    /\ n.cls = "fin"
    /\ IF n.neg THEN n.mant = 0 /\ k <= 0
       ELSE IF n.exp >= 0 THEN n.exp <= 9 /\ n.mant >= k * Pow10(n.exp)
       ELSE NumDigits(n.mant) - n.exp > 9 \/ n.mant * Pow10(-n.exp) >= k
Depth == IF last.op = "set" THEN last.arg.i ELSE last.arg
BeyondStack ==
    /\ last.op \in {"nth_ref", "set"}
    /\ F64Ge(Depth, 0)
    /\ F64Ge(Depth, Len(last.pre.stack))
C9_OutOfBounds ==
    BeyondStack =>
        /\ last.res.status = "err"
        /\ last.res.kind.e = "OutOfBounds"
        /\ last.res.kind.x = Depth
        /\ last.res.kind.y = Len(last.pre.stack)
        /\ p = last.pre

\* set_at at the depth equal to the length of a non-empty stack
C9_Witness ==
    /\ BeyondStack
    /\ last.op = "set"
    /\ last.pre.stack # <<>>
    /\ AsUsize(Depth) = Len(last.pre.stack)

\* C10: pop_boolean removes the top value; "" gives false and any other
\* string true; 0.0 and -0.0 give false and any other number true;
\* Boolean(b) gives b; a FunctionRef, Block or Operator fails with
\* InvalidBoolean carrying that value.
PopBooleanCase == last.op = "pop_boolean" /\ last.pre.stack # <<>>
C10_BooleanCoercion ==
    PopBooleanCase =>
        LET v == Top(last.pre)
            r == last.res
        IN  /\ p.stack = SubSeq(last.pre.stack, 1, Len(last.pre.stack) - 1)
            /\ v.t = "Str" =>
                   r.status = "ok" /\ r.val = Bool(v.v # <<>>)
            /\ v.t = "Number" =>
                   /\ r.status = "ok"
                   /\ r.val = Bool(v.v # F64(0) /\ v.v # NegZero)
            /\ v.t = "Bool" => r.status = "ok" /\ r.val = v
            /\ v.t \in {"Func", "Macro", "Symbol"} =>
                   /\ r.status = "err"
                   /\ r.kind.e = "InvalidBoolean"
                   /\ r.kind.x = v

\* pop_boolean took -0.0 off the stack and gave false
C10_Witness ==
    /\ PopBooleanCase
    /\ Top(last.pre) = Number(NegZero)
    /\ last.res.val = Bool(FALSE)

(***************************************************************************)
(* C11.  pop_number, pop_string and pop_macro take the top value off the   *)
(* stack before they look at its kind: on a stack whose top is of another  *)
(* kind they fail with InvalidArgumentType(expected kind, the value as     *)
(* displayed) and leave the stack one element shorter; on an empty stack   *)
(* they, like pop, fail with NotEnoughArguments and the stack stays empty. *)
(* The value is displayed where the pop has put it: the text of a block is *)
(* the address of that local (last.ptr), whatever the block holds, and the *)
(* text of any other value is the same at every address.                   *)
(***************************************************************************)
TypedPops ==
    [pop_number |-> [kind |-> "Number",
                     name |-> <<"n", "u", "m", "b", "e", "r">>],
     pop_string |-> [kind |-> "Str",
                     name |-> <<"s", "t", "r", "i", "n", "g">>],
     pop_macro |-> [kind |-> "Macro", name |-> <<"m", "a", "c", "r", "o">>]]

Mismatch ==
    /\ last.op \in DOMAIN TypedPops
    /\ last.pre.stack # <<>>
    /\ Top(last.pre).t # TypedPops[last.op].kind

C11_TypedPopsAreDestructive ==
    /\ Mismatch =>
          /\ last.res.status = "err"
          /\ last.res.kind.e = "InvalidArgumentType"
          /\ last.res.kind.x = TypedPops[last.op].name
          /\ last.res.kind.y = Display(Top(last.pre), last.ptr)
          /\ Top(last.pre).t = "Macro" =>
                last.res.kind.y = <<"<", "m", "a", "c", " ", "0", "x">>
                                  \o Hex(last.ptr) \o <<">">>
          /\ Top(last.pre).t # "Macro" =>
                \A ptr \in Addresses :
                    last.res.kind.y = Display(Top(last.pre), ptr)
          /\ p.stack = SubSeq(last.pre.stack, 1, Len(last.pre.stack) - 1)
    /\ (last.op \in DOMAIN TypedPops \cup {"pop"} /\ last.pre.stack = <<>>) =>
          /\ last.res.status = "err"
          /\ last.res.kind = NotEnoughArguments
          /\ p.stack = <<>>

\* pop_number took a block off a stack of two values: the error's text is the
\* address the block was popped to, and one value is left
C11_Witness ==
    /\ Mismatch
    /\ last.op = "pop_number"
    /\ Top(last.pre) = Macro(<<N(1)>>)
    /\ last.ptr = 1431655760
    /\ last.res.kind =
          InvalidArgumentType(<<"n", "u", "m", "b", "e", "r">>,
                              <<"<", "m", "a", "c", " ", "0", "x", "5", "5",
                                "5", "5", "5", "5", "5", "0", ">">>)
    /\ Len(last.pre.stack) = 2
    /\ Len(p.stack) = 1

(***************************************************************************)
(* C12.  A char outside the fixed lexical forms is read against the ops    *)
(* table parse is called with: where the scan meets it, a registered alias *)
(* gives one Symbol token and moves the cursor by one; an unregistered one *)
(* fails the whole parse with UnknownFunction("'c'") and no tokens, and    *)
(* the failure of a block's text is the failure of the text around it.     *)
(***************************************************************************)
FixedForms == {c \in DecDigits \cup DOMAIN CodePoints : IsNumeric(c)}
              \cup {".", "_", "(", "\"", "[", "{", "}", "\n", "\t", " ", "\\",
               "T", "F"}

\* the text is read to its end, with nothing left open
Closed(o, text) ==
    LET r == ParseFrom(o, text, 0, <<>>)
    IN  r.status = "ok" /\ r.cur = Len(text)

\* the scan of the line parsed last meets its k-th char at the top level
Meets(k) == Closed(last.pre.ops, SubSeq(last.arg, 1, k - 1))

C12_AliasDecidesAtParse ==
    last.op = "parse" =>
      \A k \in 1..Len(last.arg) :
        LET o     == last.pre.ops
            c     == last.arg[k]
            pre   == ParseFrom(o, SubSeq(last.arg, 1, k - 1), 0, <<>>)
            upto  == ParseFrom(o, SubSeq(last.arg, 1, k), 0, <<>>)
            rest  == ByteSlice(last.arg, k)
            inner == ParseFrom(o, rest.s, 0, <<>>)
        IN  /\ (c \notin FixedForms /\ c \in DOMAIN o /\ Meets(k)) =>
                  /\ upto.status = "ok"
                  /\ upto.toks = Append(pre.toks, Symbol(c))
                  /\ upto.cur = pre.cur + 1
            /\ (c \notin FixedForms /\ c \notin DOMAIN o /\ Meets(k)) =>
                  /\ last.res.status = "err"
                  /\ last.res.err.kind = UnknownFunction(<<"'", c, "'">>)
                  /\ last.res.toks = <<>>
            /\ (/\ c = "{" /\ Meets(k) /\ rest.ok
                /\ inner.status = "err"
                /\ inner.err.kind.e = "UnknownFunction") =>
                  /\ last.res.status = "err"
                  /\ last.res.err.kind = inner.err.kind
                  /\ last.res.toks = <<>>

\* "{{?" read without the alias '?': the char two blocks deep fails the parse
C12_Witness ==
    /\ last.op = "parse"
    /\ last.arg = <<"{", "{", "?">>
    /\ "?" \notin DOMAIN last.pre.ops
    /\ "+" \in DOMAIN last.pre.ops
    /\ last.res.status = "err"
    /\ last.res.err.kind = UnknownFunction(<<"'", "?", "'">>)
    /\ last.res.toks = <<>>

(***************************************************************************)
(* C13.  A '}' the scan meets at the top level ends the parse without an   *)
(* error: parse succeeds, the tokens are exactly those of the text before  *)
(* that '}', the cursor is the index of that '}', and nothing after it is  *)
(* read.                                                                   *)
(***************************************************************************)
C13_CloseBraceEndsParse ==
    last.op = "parse" =>
      \A k \in 1..Len(last.arg) :
        (last.arg[k] = "}" /\ Meets(k)) =>
           /\ last.res.status = "ok"
           /\ last.res.cur = k - 1
           /\ last.res.toks =
                ParseFrom(last.pre.ops, SubSeq(last.arg, 1, k - 1), 0, <<>>).toks

\* "1}?" read without the alias '?': the '?' after the brace is never looked at
C13_Witness ==
    /\ last.op = "parse"
    /\ last.arg = <<"1", "}", "?">>
    /\ "?" \notin DOMAIN last.pre.ops
    /\ last.res.status = "ok"
    /\ last.res.toks = <<N(1)>>
    /\ last.res.cur = 1

(***************************************************************************)
(* C14.  The error eval returns records the operator of the evaluated      *)
(* sequence whose invocation failed.  When that operator's function runs a *)
(* block and an operator inside the block fails, the block's error is      *)
(* reduced to its kind, and the error that reaches the caller of eval has  *)
(* that kind with the outer operator as its token, not the inner one.      *)
(***************************************************************************)
\* eval failed at an operator bound to ex, which popped a block and ran it,
\* and the evaluation of the block's tokens failed
BlockFailed ==
    /\ last.op = "eval"
    /\ last.res.status = "err"
    /\ LET k      == FirstFail(last.pre, last.arg)
           before == Eval(last.pre, SubSeq(last.arg, 1, k - 1), last.ptr).st
       IN  /\ HasAlias(before, last.arg[k].v, <<"e", "x">>)
           /\ HasFunc(before, <<"e", "x">>, ExBody)
           /\ before.stack # <<>>
           /\ Top(before).t = "Macro"
           /\ Eval(Pop(before).st, Top(before).v, last.ptr).status = "err"

C14_ErrorNamesOuterOperator ==
    BlockFailed =>
        LET k      == FirstFail(last.pre, last.arg)
            before == Eval(last.pre, SubSeq(last.arg, 1, k - 1), last.ptr).st
            inner  == Eval(Pop(before).st, Top(before).v, last.ptr)
        IN  /\ last.res.err.kind = inner.err.kind
            /\ last.res.err.tok = SomeOf(last.arg[k])
            /\ last.res.err.ch = Nothing

\* T{+}; : the '+' inside the block fails on the Bool, the error names ';'
C14_Witness ==
    /\ BlockFailed
    /\ EvalOfParsed(TxBlockFail)
    /\ last.pre.stack = <<>>
    /\ last.res.err =
          PescError(Nothing, SomeOf(Symbol(";")),
                    InvalidArgumentType(<<"n", "u", "m", "b", "e", "r">>,
                                        <<"(", "t", "r", "u", "e", ")">>))
    /\ Eval(Pop(Eval(last.pre, SubSeq(last.arg, 1, 2), last.ptr).st).st,
            <<Symbol("+")>>, last.ptr).err.tok = SomeOf(Symbol("+"))

(***************************************************************************)
(* C15.  In a text of one-byte chars, after a block has been read the scan *)
(* goes on at the char right after the brace that closes it, at every      *)
(* depth: the tokens after the block are those the rest of the text gives  *)
(* when parsed on its own, none passed over or read twice, and a '}' in a  *)
(* string or a comment inside the block does not close it.                 *)
(***************************************************************************)
Ascii(text) == \A k \in 1..Len(text) : ByteLen(text[k]) = 1

\* parse of text, where a block opens at a and the brace at b closes it, is
\* parse of what is before, the block, and parse of what is after
ResumesAfter(o, text, a, b) ==
    LET all  == ParseFrom(o, text, 0, <<>>)
        pre  == ParseFrom(o, SubSeq(text, 1, a - 1), 0, <<>>)
        body == ParseFrom(o, SubSeq(text, a + 1, b - 1), 0, <<>>)
        rest == ParseFrom(o, SubSeq(text, b + 1, Len(text)), 0, <<>>)
    IN  /\ all.status = rest.status
        /\ rest.status = "ok" =>
              /\ all.toks = (pre.toks \o <<Macro(body.toks)>>) \o rest.toks
              /\ all.cur = b + rest.cur
        /\ rest.status = "err" => all.err.kind = rest.err.kind

\* the blocks of text that the scan of text itself reads
BlocksOf(o, text) ==
    {ab \in (1..Len(text)) \X (1..Len(text)) :
        /\ ab[1] < ab[2]
        /\ text[ab[1]] = "{"
        /\ text[ab[2]] = "}"
        /\ Closed(o, SubSeq(text, 1, ab[1] - 1))
        /\ Closed(o, SubSeq(text, ab[1] + 1, ab[2] - 1))}

\* every text a parse of the line is called on: the line, and what follows
\* each of its chars
C15_ScanResumesAfterBlock ==
    (last.op = "parse" /\ Ascii(last.arg)) =>
      \A j \in 0..Len(last.arg) :
        LET text == SubSeq(last.arg, j + 1, Len(last.arg))
        IN  \A ab \in BlocksOf(last.pre.ops, text) :
               ResumesAfter(last.pre.ops, text, ab[1], ab[2])

\* {"}"{\}\1}}1+ : the braces in the string and in the comment close
\* nothing, and 1 and + are read after the outer block
C15_Witness ==
    /\ last.op = "parse"
    /\ last.arg = <<"{", "\"", "}", "\"", "{", "\\", "}", "\\", "1", "}", "}",
                    "1", "+">>
    /\ <<1, 11>> \in BlocksOf(last.pre.ops, last.arg)
    /\ <<4, 9>> \in BlocksOf(last.pre.ops, SubSeq(last.arg, 2, 13))
    /\ last.res.status = "ok"
    /\ last.res.toks = <<Macro(<<Str(<<"}">>), Macro(<<N(1)>>)>>), N(1),
                         Symbol("+")>>
    /\ last.res.cur = 13

(***************************************************************************)
(* C16.  nth_ref and set address the same element, depth 0 being the value *)
(* pushed last: on a stack of length len, for a depth i with 0 <= i < len, *)
(* set(i, v) succeeds, an nth_ref(i) after it gives v, the length is the   *)
(* same, every other position keeps its value; nth_ref leaves the stack    *)
(* as it was.                                                              *)
(***************************************************************************)
WithinStack ==
    /\ last.op \in {"nth_ref", "set"}
    /\ F64Ge(Depth, 0)
    /\ ~F64Ge(Depth, Len(last.pre.stack))

\* the whole number of values above the one at depth i
Above(i) == CHOOSE k \in 0..Len(last.pre.stack) : F64Ge(i, k) /\ ~F64Ge(i, k + 1)

C16_SetAndNthRefAgree ==
    LET len == Len(last.pre.stack)
        at  == len - Above(Depth)
    IN  /\ (last.op = "set" /\ WithinStack) =>
              /\ last.res.status = "ok"
              /\ Len(p.stack) = len
              /\ p.stack[at] = last.arg.v
              /\ \A j \in 1..len : j # at => p.stack[j] = last.pre.stack[j]
              /\ NthRef(p, Depth).status = "ok"
              /\ NthRef(p, Depth).val = last.arg.v
              /\ NthRef(p, Depth).st = p
        /\ last.op = "nth_ref" => p = last.pre
        /\ (last.op = "nth_ref" /\ WithinStack) =>
              /\ last.res.status = "ok"
              /\ last.res.val = last.pre.stack[at]

\* set at depth 1 of a two-element stack: the bottom value is replaced, the
\* top one is not
C16_Witness ==
    /\ last.op = "set"
    /\ WithinStack
    /\ Depth = F64(1)
    /\ Len(last.pre.stack) = 2
    /\ p.stack[1] = last.arg.v
    /\ p.stack[1] # last.pre.stack[1]
    /\ p.stack[2] = last.pre.stack[2]
    /\ NthRef(p, F64(0)).val = last.pre.stack[2]

(***************************************************************************)
(* C17.  parse terminates on every text and every ops table: every turn of *)
(* the scan either moves the cursor strictly forward or returns, with      *)
(* success or with an error; so parse returns.                             *)
(***************************************************************************)
\* the turn of the loop at cursor k moves forward or returns a result
AdvancesOrReturns(o, text, k) ==
    LET t == Turn(o, text, k, <<>>)
    IN  IF t.go THEN t.i > k ELSE t.res.status \in {"ok", "err"}

C17_EveryTurnAdvancesOrReturns ==
    last.op = "parse" =>
        /\ last.res.status \in {"ok", "err"}
        /\ \A k \in 0..(Len(last.arg) - 1) :
              Meets(k + 1) => AdvancesOrReturns(last.pre.ops, last.arg, k)

(***************************************************************************)
(* C18.  eval never aborts the program: for every token sequence and every *)
(* state of the registry it returns success or an error value.  An         *)
(* operator token whose char has no entry in ops when it is evaluated      *)
(* gives an UnknownFunction error, and the stack stays as it was.          *)
(***************************************************************************)
C18_EvalNeverAborts ==
    last.op = "eval" =>
        /\ last.res.status \in {"ok", "err"}
        /\ \A k \in 1..Len(last.arg) :
              LET before == Eval(last.pre, SubSeq(last.arg, 1, k - 1), last.ptr)
              IN  (/\ before.status = "ok"
                   /\ last.arg[k].t = "Symbol"
                   /\ last.arg[k].v \notin DOMAIN before.st.ops) =>
                      /\ last.res.status = "err"
                      /\ last.res.err.kind.e = "UnknownFunction"
                      /\ p.stack = before.st.stack

(***************************************************************************)
(* C19.  The rollback of a failed invocation covers the stack only: what   *)
(* the failing function added to or replaced in funcs and ops before it    *)
(* failed is still there after the failed exec, while the stack is the one *)
(* from before the call.                                                   *)
(***************************************************************************)
\* the engine as the function left it when it returned its error
AtFailure ==
    RunBody(last.pre, last.arg.v, last.pre.funcs[last.arg.v], 1, <<>>,
            MaxDepth - 1, last.ptr).st

C19_RollbackIsStackOnly ==
    FailedInvoke =>
        /\ p.funcs = AtFailure.funcs
        /\ p.ops = AtFailure.ops
        /\ p.stack = last.pre.stack

\* regfail has failed: the alias '?' and the function two it added and the
\* body it gave add are in place, its push is undone
C19_Witness ==
    /\ FailedInvoke
    /\ last.arg = Func(<<"r", "e", "g", "f", "a", "i", "l">>)
    /\ HasFunc(last.pre, <<"a", "d", "d">>, AddBody)
    /\ "?" \notin DOMAIN last.pre.ops
    /\ <<"t", "w", "o">> \notin DOMAIN last.pre.funcs
    /\ HasFunc(p, <<"a", "d", "d">>, TwoBody)
    /\ HasFunc(p, <<"t", "w", "o">>, TwoBody)
    /\ HasAlias(p, "?", <<"t", "w", "o">>)
    /\ AtFailure.stack # last.pre.stack
    /\ p.stack = last.pre.stack

(***************************************************************************)
(* C20.  Whenever parse succeeds, the cursor it returns is a position      *)
(* within the text: at most the number of chars of the text, equal to it   *)
(* when the whole text was read, and the index of the '}' that stopped the *)
(* scan otherwise; also when the text ends inside a string, a comment, a   *)
(* function reference, a parenthesized number or a block.                  *)
(***************************************************************************)
C20_CursorWithinText ==
    (last.op = "parse" /\ last.res.status = "ok") =>
        /\ last.res.cur <= Len(last.arg)
        /\ last.res.cur < Len(last.arg) => last.arg[last.res.cur + 1] = "}"

====
